---- MODULE Spec2Model ----
(***************************************************************************)
(* Model of the two image generators of RedInk:                            *)
(*   backend/generators/modelscope.py    ModelScopeGenerator  (submit/poll) *)
(*   backend/generators/replicate_gen.py ReplicateGenerator   (direct call) *)
(* One behaviour is one call of generate_image on one generator.  The      *)
(* remote services are nondeterministic: every HTTP request either fails   *)
(* in transport or returns a status code and a body, and takes some time.  *)
(***************************************************************************)
EXTENDS Integers, Sequences, FiniteSets, TLC

(***************************************************************************)
(* Bounds of the model.                                                    *)
(***************************************************************************)
MaxTimeout == 2      \* largest configured timeout, in clock ticks
MaxDelay == 1        \* longest time one HTTP request takes, in clock ticks
MaxInterval == 2     \* largest configured polling interval, in clock ticks
ExtraLen == 2        \* how far the longest prompt exceeds MAX_PROMPT_LENGTH

(***************************************************************************)
(* Program constants.                                                      *)
(***************************************************************************)
MAX_PROMPT_LENGTH == 1800
default_steps == 9
default_guidance == 0     \* 0.0; guidance scales are counted in tenths

(***************************************************************************)
(* Values exchanged with the outside world.                                *)
(***************************************************************************)
\* HTTP status codes a server may answer with: 200, another 2xx, a 3xx that
\* is returned to the caller (not a followed redirect), a 4xx and a 5xx.
StatusCodes == {200, 206, 304, 404, 500}

Is2xx(code) == code >= 200 /\ code < 300

\* A request that got no response at all (connection error, read timeout).
TransportFailure == [code |-> 0]

Delays == 0 .. MaxDelay

TaskIds == {"t1", "t2"}
Urls == {"http://x/y.png", "http://x/z.png"}
Contents == {"png-A", "png-B"}

\* Messages are sequences of words, so that containment is a real check.
ServerMessages == {<<"bad", "prompt">>, <<"quota">>}

\* s contains sub as a contiguous subsequence (Python's `sub in s`).
Contains(s, sub) ==
    \E i \in 0 .. (Len(s) - Len(sub)) : SubSeq(s, i + 1, i + Len(sub)) = sub

\* dict.get(key, default) and `key in dict` of a parsed JSON object.
HasKey(d, k) == k \in DOMAIN d
Get(d, k, default) == IF HasKey(d, k) THEN d[k] ELSE default

\* A body that is not JSON, and a body that parses to the JSON object d.
NotJson == [json |-> FALSE]
Json(d) == [json |-> TRUE, data |-> d]

\* The characters of a prompt of length n (code points, varying by position).
MkPrompt(n) == [i \in 1 .. n |-> i % 7]

\* Prompts around the length limit, and the short prompts of ordinary calls.
LongPromptLengths ==
    {MAX_PROMPT_LENGTH - 1, MAX_PROMPT_LENGTH} \cup
    {MAX_PROMPT_LENGTH + n : n \in 1 .. ExtraLen}
ShortPromptLengths == {2}

\* Aspect ratios a caller may pass: those of the table, and others.
AspectRatios == {"1:1", "3:4", "4:3", "9:16", "16:9", "2:3", ""}

\* Keyword arguments a caller may pass: any of seed, steps and guidance.
KwargValues == [seed |-> {0, 7}, steps |-> {0, 20}, guidance |-> {0, 35}]
Kwargs ==
    UNION {{kw \in [keys -> {0, 7, 20, 35}] : \A k \in keys : kw[k] \in KwargValues[k]} :
           keys \in SUBSET {"seed", "steps", "guidance"}}
NoKwargs == <<>>

\* The api_key held by a generator: absent (None), empty, or a token.
NoKey == [present |-> FALSE, value |-> ""]
ApiKeys == {NoKey, [present |-> TRUE, value |-> ""], [present |-> TRUE, value |-> "sk-key"]}

\* Python truthiness of an api_key: None and "" are falsy.
Truthy(k) == k.present /\ k.value # ""

VARIABLES
    backend,           \* which generator the call is made on
    api_key,           \* self.api_key
    replicate,         \* whether the replicate package was importable
    timeout,           \* self.timeout
    polling_interval,  \* self.polling_interval
    prompt,            \* the caller's prompt
    aspect_ratio,      \* the caller's aspect_ratio
    kwargs,            \* the caller's keyword arguments
    pc,                \* position of the call of generate_image
    now,               \* time.time()
    payload,           \* the submission payload
    task_id,           \* local task_id
    start_time,        \* local start_time
    data,              \* local data: the parsed body of the last status response
    output_url,        \* local output_url
    output,            \* local output: what client.run returned
    image_url,         \* local image_url
    width,             \* local width
    height,            \* local height
    input_params,      \* local input_params
    answer,            \* what the last capability query returned
    status_code,       \* status code of the last HTTP response (0: none)
    trace,             \* network operations and sleeps performed so far
    outcome,           \* "none", "return" or "raise"
    exc,               \* class of the raised exception
    excMsg,            \* message of the raised exception
    result             \* the returned bytes

vars == <<backend, api_key, replicate, timeout, polling_interval, prompt,
          aspect_ratio, kwargs, pc, now, payload, task_id, start_time, data,
          output_url, output, image_url, width, height, input_params, answer,
          status_code, trace, outcome, exc, excMsg, result>>

config == <<backend, api_key, replicate, timeout, polling_interval, prompt,
            aspect_ratio, kwargs>>

\* The locals of ReplicateGenerator.generate_image that build the request.
request == <<width, height, input_params>>

\* One entry of the trace: the operation, what it was asked for, how the
\* code took its result, and what the code read from the response (the task
\* id of a submission, the bytes of a download).
Event(op, arg, res, body) == [op |-> op, arg |-> arg, res |-> res, body |-> body]

(***************************************************************************)
(* Responses of the remote services.                                       *)
(***************************************************************************)
\* Bodies the submission endpoint may answer with.
PostBodies ==
    {NotJson, Json([error |-> "x"])} \cup {Json([task_id |-> t]) : t \in TaskIds}

\* Bodies the status endpoint may answer with.
StatusBodies ==
    {Json([task_status |-> "PENDING"]),
     Json([task_status |-> "RUNNING"]),
     Json([request_id |-> "r"]),
     Json([task_status |-> "SUCCEED"]),
     Json([task_status |-> "SUCCEED", output_images |-> <<>>]),
     Json([task_status |-> "FAILED"])}
    \cup {Json([task_status |-> "SUCCEED", output_images |-> <<u, "http://x/other.png">>]) : u \in Urls}
    \cup {Json([task_status |-> "FAILED", message |-> m]) : m \in ServerMessages}

PostResponses == {TransportFailure} \cup [code : StatusCodes, body : PostBodies]
StatusResponses == {TransportFailure} \cup [code : StatusCodes, body : StatusBodies]
ImageResponses == {TransportFailure} \cup [code : StatusCodes, body : Contents]

\* What client.run may return: one URL, or a list of URLs (possibly empty).
RunOutputs ==
    {[list |-> FALSE, url |-> u] : u \in Urls}
    \cup {[list |-> TRUE, items |-> <<u, "http://x/other.png">>] : u \in Urls}
    \cup {[list |-> TRUE, items |-> <<>>]}

\* Messages of the exceptions client.run may raise.
RunErrors == {<<"Unauthenticated">>, <<"model", "crashed">>}

\* requests.Response.raise_for_status: HTTPError for 4xx and 5xx only.
RaiseForStatus(code) == code >= 400 /\ code < 600

(***************************************************************************)
(* Initial state: a constructed generator and a call about to start.       *)
(***************************************************************************)
NoPayload == [model |-> "", prompt |-> <<>>]
NoOutput == [list |-> TRUE, items |-> <<>>]

NoAnswer == [query |-> "", value |-> <<>>]

InitCall(backends, lengths, ratios, kws) ==
    /\ backend \in backends
    /\ api_key \in ApiKeys
    /\ replicate \in (IF backend = "replicate" THEN BOOLEAN ELSE {TRUE})
    /\ timeout \in (IF backend = "modelscope" THEN 0 .. MaxTimeout ELSE {0})
    /\ polling_interval \in (IF backend = "modelscope" THEN 1 .. MaxInterval ELSE {0})
    /\ prompt \in {MkPrompt(n) : n \in lengths}
    /\ aspect_ratio \in (IF backend = "replicate" THEN ratios ELSE {"3:4"})
    /\ kwargs \in kws
    /\ pc = "start"
    /\ now = 0
    /\ payload = NoPayload
    /\ task_id = ""
    /\ start_time = 0
    /\ data = <<>>
    /\ output_url = ""
    /\ output = NoOutput
    /\ image_url = ""
    /\ width = 0
    /\ height = 0
    /\ input_params = <<>>
    /\ answer = NoAnswer
    /\ status_code = 0
    /\ trace = <<>>
    /\ outcome = "none"
    /\ exc = ""
    /\ excMsg = <<>>
    /\ result = ""

InitWith(backends, lengths) == InitCall(backends, lengths, {"3:4"}, {NoKwargs})

Init == InitWith({"modelscope", "replicate"}, ShortPromptLengths)

(***************************************************************************)
(* How a call ends.                                                        *)
(***************************************************************************)
Raise(kind, msg) ==
    /\ pc' = "done"
    /\ outcome' = "raise"
    /\ exc' = kind
    /\ excMsg' = msg
    /\ UNCHANGED result

\* Return handing back nothing of the body.
Return_Empty(bytes) ==
    /\ pc' = "done"
    /\ outcome' = "return"
    /\ result' = ""
    /\ UNCHANGED <<exc, excMsg>>

Return(bytes) ==
    /\ pc' = "done"
    /\ outcome' = "return"
    /\ result' = bytes
    /\ UNCHANGED <<exc, excMsg>>

Goto(label) ==
    /\ pc' = label
    /\ UNCHANGED <<outcome, exc, excMsg, result>>

(***************************************************************************)
(* ModelScopeGenerator                                                     *)
(***************************************************************************)
\* validate_config, as called first by generate_image.
MS_validate_config ==
    /\ backend = "modelscope"
    /\ pc = "start"
    /\ IF ~Truthy(api_key)
         THEN Raise("ValueError", <<"ModelScope", "API", "Key", "is", "required">>)
         ELSE Goto("submit")
    /\ UNCHANGED <<config, request, answer, now, payload, task_id, start_time, data, output_url,
                   output, image_url, status_code, trace>>

\* Truncate cutting one character too many.
Truncate_OneShort(p) ==
    IF Len(p) > MAX_PROMPT_LENGTH THEN SubSeq(p, 1, MAX_PROMPT_LENGTH - 1) ELSE p

\* prompt[:MAX_PROMPT_LENGTH] when the prompt is longer than the limit.
Truncate(p) ==
    IF Len(p) > MAX_PROMPT_LENGTH THEN SubSeq(p, 1, MAX_PROMPT_LENGTH) ELSE p

\* What becomes of the submission response r.
SubmitResult(r) ==
    IF r = TransportFailure THEN [exc |-> "ConnectionError", msg |-> <<"connection", "failed">>]
    ELSE IF RaiseForStatus(r.code) THEN [exc |-> "HTTPError", msg |-> <<ToString(r.code), "Error">>]
    ELSE IF ~r.body.json THEN [exc |-> "JSONDecodeError", msg |-> <<"Expecting", "value">>]
    ELSE IF ~HasKey(r.body.data, "task_id") THEN [exc |-> "KeyError", msg |-> <<"task_id">>]
    ELSE [exc |-> "", task_id |-> r.body.data.task_id]

\* Build the payload, POST it, read the task id, sample start_time.
MS_submit ==
    /\ backend = "modelscope"
    /\ pc = "submit"
    /\ payload' = [model |-> "Tongyi-MAI/Z-Image-Turbo", prompt |-> Truncate(prompt)]
    /\ \E d \in Delays, r \in PostResponses :
         LET s == SubmitResult(r) IN
         /\ now' = now + d
         /\ status_code' = r.code
         /\ trace' = Append(trace, Event("POST", "", IF s.exc = "" THEN "ok" ELSE "exc",
                                         IF s.exc = "" THEN r.body.data["task_id"] ELSE ""))
         /\ IF s.exc # ""
              THEN Raise(s.exc, s.msg) /\ UNCHANGED <<task_id, start_time>>
              ELSE /\ task_id' = s.task_id
                   /\ start_time' = now'
                   /\ Goto("loop")
    /\ UNCHANGED <<config, request, answer, data, output_url, output, image_url>>

\* TimedOut allowing one tick more than the limit.
TimedOut_Late(t, start, limit) == t - start > limit + 1

\* TimedOut with >= in place of >.
TimedOut_NonStrict(t, start, limit) == t - start >= limit

\* The timeout test at the top of the polling loop.
TimedOut(t, start, limit) == t - start > limit

\* MS_check_timeout going round the loop again instead of raising.
MS_check_timeout_Continue ==
    /\ backend = "modelscope"
    /\ pc = "loop"
    /\ IF TimedOut(now, start_time, timeout) THEN Goto("loop") ELSE Goto("get")
    /\ UNCHANGED <<config, request, answer, now, payload, task_id, start_time, data, output_url,
                   output, image_url, status_code, trace>>

\* Top of the polling loop.
MS_check_timeout ==
    /\ backend = "modelscope"
    /\ pc = "loop"
    /\ IF TimedOut(now, start_time, timeout)
         THEN Raise("TimeoutError",
                    <<"Image", "generation", "timed", "out", "after", ToString(timeout), "seconds">>)
         ELSE Goto("get")
    /\ UNCHANGED <<config, request, answer, now, payload, task_id, start_time, data, output_url,
                   output, image_url, status_code, trace>>

\* The status a parsed response carries: data.get("task_status").
TaskStatus(d) == Get(d, "task_status", "None")

\* FirstOutputImage taking the last URL instead of the first.
FirstOutputImage_Last(d) == d.output_images[Len(d.output_images)]

\* The URL taken from a SUCCEED response: data["output_images"][0].
FirstOutputImage(d) == d.output_images[1]

\* FailedMessage ignoring the message of the server.
FailedMessage_Generic(d) == <<"Image", "generation", "failed:", "Unknown", "error">>

\* The message of the error raised for a FAILED response.
FailedMessage(d) ==
    <<"Image", "generation", "failed:">> \o Get(d, "message", <<"Unknown", "error">>)

\* PollResult taking a SUCCEED response without images as a polling failure.
PollResult_Lenient(r) ==
    IF r = TransportFailure \/ RaiseForStatus(r.code) THEN [kind |-> "except"]
    ELSE LET d == r.body.data IN
         IF TaskStatus(d) = "SUCCEED"
           THEN IF ~HasKey(d, "output_images") \/ Len(d.output_images) = 0
                  THEN [kind |-> "except"]
                ELSE [kind |-> "download", url |-> FirstOutputImage(d)]
         ELSE IF TaskStatus(d) = "FAILED"
           THEN [kind |-> "raise", exc |-> "RuntimeError", msg |-> FailedMessage(d)]
         ELSE [kind |-> "sleep"]

\* What becomes of the status response r.
PollResult(r) ==
    IF r = TransportFailure \/ RaiseForStatus(r.code) THEN [kind |-> "except"]
    ELSE LET d == r.body.data IN
         IF TaskStatus(d) = "SUCCEED"
           THEN IF ~HasKey(d, "output_images")
                  THEN [kind |-> "raise", exc |-> "KeyError", msg |-> <<"output_images">>]
                ELSE IF Len(d.output_images) = 0
                  THEN [kind |-> "raise", exc |-> "IndexError",
                        msg |-> <<"list", "index", "out", "of", "range">>]
                ELSE [kind |-> "download", url |-> FirstOutputImage(d)]
         ELSE IF TaskStatus(d) = "FAILED"
           THEN [kind |-> "raise", exc |-> "RuntimeError", msg |-> FailedMessage(d)]
         ELSE [kind |-> "sleep"]

\* How the trace records the status response r: "exc" when it raised,
\* the terminal status it carried, or "pending" for any other status.
PollSeen(r) ==
    IF r = TransportFailure \/ RaiseForStatus(r.code) THEN "exc"
    ELSE IF TaskStatus(r.body.data) \in {"SUCCEED", "FAILED"} THEN TaskStatus(r.body.data)
    ELSE "pending"

\* One status GET and the handling of its response.
MS_poll ==
    /\ backend = "modelscope"
    /\ pc = "get"
    /\ \E d \in Delays, r \in StatusResponses :
         LET p == PollResult(r) IN
         /\ now' = now + d
         /\ status_code' = r.code
         /\ data' = IF p.kind = "except" THEN data ELSE r.body.data
         /\ trace' = Append(trace, Event("GET_STATUS", task_id, PollSeen(r), ""))
         /\ CASE p.kind = "except" -> Goto("except") /\ UNCHANGED output_url
              [] p.kind = "sleep" -> Goto("sleep") /\ UNCHANGED output_url
              [] p.kind = "raise" -> Raise(p.exc, p.msg) /\ UNCHANGED output_url
              [] p.kind = "download" -> Goto("download") /\ output_url' = p.url
    /\ UNCHANGED <<config, request, answer, payload, task_id, start_time, output, image_url>>

\* MS_download testing the timeout once more before it returns the bytes.
MS_download_Deadline ==
    /\ backend = "modelscope"
    /\ pc = "download"
    /\ \E d \in Delays, r \in ImageResponses :
         LET failed == r = TransportFailure \/ RaiseForStatus(r.code) IN
         /\ now' = now + d
         /\ status_code' = r.code
         /\ trace' = Append(trace, Event("GET_IMAGE", output_url,
                                         IF failed THEN "exc" ELSE "ok",
                                         IF failed THEN "" ELSE r.body))
         /\ IF failed THEN Goto("except")
            ELSE IF TimedOut(now + d, start_time, timeout)
              THEN Raise("TimeoutError",
                         <<"Image", "generation", "timed", "out", "after",
                           ToString(timeout), "seconds">>)
            ELSE Return(r.body)
    /\ UNCHANGED <<config, request, answer, payload, task_id, start_time, data, output_url,
                   output, image_url>>

\* The GET of the output URL, inside the try block of the polling loop.
MS_download ==
    /\ backend = "modelscope"
    /\ pc = "download"
    /\ \E d \in Delays, r \in ImageResponses :
         LET failed == r = TransportFailure \/ RaiseForStatus(r.code) IN
         /\ now' = now + d
         /\ status_code' = r.code
         /\ trace' = Append(trace, Event("GET_IMAGE", output_url,
                                         IF failed THEN "exc" ELSE "ok",
                                         IF failed THEN "" ELSE r.body))
         /\ IF failed THEN Goto("except") ELSE Return(r.body)
    /\ UNCHANGED <<config, request, answer, payload, task_id, start_time, data, output_url,
                   output, image_url>>

\* time.sleep at the end of an iteration that saw a non-terminal status.
MS_sleep ==
    /\ backend = "modelscope"
    /\ pc = "sleep"
    /\ now' = now + polling_interval
    /\ trace' = Append(trace, Event("SLEEP", "", "ok", ""))
    /\ Goto("loop")
    /\ UNCHANGED <<config, request, answer, payload, task_id, start_time, data, output_url,
                   output, image_url, status_code>>

\* MS_except re-raising the error instead of sleeping.
MS_except_Reraise ==
    /\ backend = "modelscope"
    /\ pc = "except"
    /\ Raise("ConnectionError", <<"connection", "failed">>)
    /\ UNCHANGED <<config, request, answer, now, payload, task_id, start_time, data, output_url,
                   output, image_url, status_code, trace>>

\* MS_except submitting the task again after the sleep.
MS_except_Resubmit ==
    /\ backend = "modelscope"
    /\ pc = "except"
    /\ now' = now + polling_interval
    /\ trace' = Append(trace, Event("SLEEP", "", "exc", ""))
    /\ Goto("submit")
    /\ UNCHANGED <<config, request, answer, payload, task_id, start_time, data, output_url,
                   output, image_url, status_code>>

\* The handler of requests.exceptions.RequestException: log, sleep, loop.
MS_except ==
    /\ backend = "modelscope"
    /\ pc = "except"
    /\ now' = now + polling_interval
    /\ trace' = Append(trace, Event("SLEEP", "", "exc", ""))
    /\ Goto("loop")
    /\ UNCHANGED <<config, request, answer, payload, task_id, start_time, data, output_url,
                   output, image_url, status_code>>

(***************************************************************************)
(* ReplicateGenerator                                                      *)
(***************************************************************************)
\* _get_dimensions falling back to the portrait size of the default ratio.
_get_dimensions_Portrait(ratio) ==
    LET ratios == [r \in {"1:1", "3:4", "4:3", "9:16", "16:9"} |->
                     CASE r = "1:1" -> <<1024, 1024>>
                       [] r = "3:4" -> <<896, 1152>>
                       [] r = "4:3" -> <<1152, 896>>
                       [] r = "9:16" -> <<768, 1344>>
                       [] r = "16:9" -> <<1344, 768>>]
    IN  Get(ratios, ratio, <<896, 1152>>)

\* _get_dimensions: ratios.get(aspect_ratio, (1024, 1024)).
_get_dimensions(ratio) ==
    LET ratios == [r \in {"1:1", "3:4", "4:3", "9:16", "16:9"} |->
                     CASE r = "1:1" -> <<1024, 1024>>
                       [] r = "3:4" -> <<896, 1152>>
                       [] r = "4:3" -> <<1152, 896>>
                       [] r = "9:16" -> <<768, 1344>>
                       [] r = "16:9" -> <<1344, 768>>]
    IN  Get(ratios, ratio, <<1024, 1024>>)

\* Entry of generate_image: the import check, the client, the dimensions.
RP_start ==
    /\ backend = "replicate"
    /\ pc = "start"
    /\ IF ~replicate
         THEN /\ Raise("ImportError", <<"Replicate", "package", "not", "installed">>)
              /\ UNCHANGED <<width, height>>
         ELSE /\ width' = _get_dimensions(aspect_ratio)[1]
              /\ height' = _get_dimensions(aspect_ratio)[2]
              /\ Goto("run")
    /\ UNCHANGED <<config, input_params, answer, now, payload, task_id, start_time, data,
                   output_url, output, image_url, status_code, trace>>

\* InputParams adding the seed only when it is truthy.
InputParams_TruthySeed(p, w, h, kw) ==
    LET base == [prompt |-> p,
                 width |-> w,
                 height |-> h,
                 num_inference_steps |-> Get(kw, "steps", default_steps),
                 guidance_scale |-> Get(kw, "guidance", default_guidance),
                 output_format |-> "png"]
    IN  IF HasKey(kw, "seed") /\ kw["seed"] # 0
          THEN [k \in DOMAIN base \cup {"seed"} |-> IF k = "seed" THEN kw["seed"] ELSE base[k]]
          ELSE base

\* The input_params handed to client.run.
InputParams(p, w, h, kw) ==
    LET base == [prompt |-> p,
                 width |-> w,
                 height |-> h,
                 num_inference_steps |-> Get(kw, "steps", default_steps),
                 guidance_scale |-> Get(kw, "guidance", default_guidance),
                 output_format |-> "png"]
    IN  IF HasKey(kw, "seed")
          THEN [k \in DOMAIN base \cup {"seed"} |-> IF k = "seed" THEN kw["seed"] ELSE base[k]]
          ELSE base

\* GenerationFailed dropping the original message.
GenerationFailed_NoDetail(msg) == <<"generation", "failed:">>

\* The handler of generate_image: RuntimeError around str(e).
\* (the prefix stands for the source's Chinese "image generation failed: ")
GenerationFailed(msg) == <<"generation", "failed:">> \o msg

\* The handler of _download_image: Exception around str(e).
\* (the prefix stands for the source's Chinese "image download failed: ")
DownloadFailed(msg) == <<"download", "failed:">> \o msg

\* image_url = output[0] if isinstance(output, list) else output
ResolveUrl(o) == IF o.list THEN o.items[1] ELSE o.url

\* client.run and the resolution of its result to one URL.
RP_run ==
    /\ backend = "replicate"
    /\ pc = "run"
    /\ input_params' = InputParams(prompt, width, height, kwargs)
    /\ \/ \E m \in RunErrors :
            /\ trace' = Append(trace, Event("RUN", "", "exc", ""))
            /\ Raise("RuntimeError", GenerationFailed(m))
            /\ UNCHANGED <<output, image_url>>
       \/ \E o \in RunOutputs :
            /\ trace' = Append(trace, Event("RUN", "", "ok", ""))
            /\ output' = o
            /\ IF o.list /\ Len(o.items) = 0
                 THEN /\ Raise("RuntimeError",
                               GenerationFailed(<<"list", "index", "out", "of", "range">>))
                      /\ UNCHANGED image_url
                 ELSE /\ image_url' = ResolveUrl(o)
                      /\ Goto("fetch")
    /\ UNCHANGED <<config, width, height, answer, now, payload, task_id, start_time, data,
                   output_url, status_code>>

\* _download_image succeeds on this status code.
DownloadOk(code) == code = 200

\* What _download_image raises for the response r.
DownloadError(r) ==
    IF r = TransportFailure THEN DownloadFailed(<<"connection", "failed">>)
    ELSE DownloadFailed(<<"HTTP", ToString(r.code)>>)

\* _download_image, called inside the try block of generate_image.
RP_download_image ==
    /\ backend = "replicate"
    /\ pc = "fetch"
    /\ \E r \in ImageResponses :
         LET ok == r # TransportFailure /\ DownloadOk(r.code) IN
         /\ status_code' = r.code
         /\ trace' = Append(trace, Event("GET_IMAGE", image_url,
                                         IF ok THEN "ok" ELSE "exc",
                                         IF ok THEN r.body ELSE ""))
         /\ IF ok THEN Return(r.body)
                  ELSE Raise("RuntimeError", GenerationFailed(DownloadError(r)))
    /\ UNCHANGED <<config, request, answer, now, payload, task_id, start_time, data, output_url,
                   output, image_url>>

Next ==
    \/ MS_validate_config
    \/ MS_submit
    \/ MS_check_timeout
    \/ MS_poll
    \/ MS_download
    \/ MS_sleep
    \/ MS_except
    \/ RP_start
    \/ RP_run
    \/ RP_download_image

Spec == Init /\ [][Next]_vars

(***************************************************************************)
(* The submission step alone, on prompts around the length limit.          *)
(***************************************************************************)
InitPrompt == InitWith({"modelscope"}, LongPromptLengths)

NextPrompt ==
    \/ MS_validate_config
    \/ MS_submit

SpecPrompt == InitPrompt /\ [][NextPrompt]_vars

(***************************************************************************)
(* The call of ModelScopeGenerator.generate_image as it runs: the thread   *)
(* is not suspended for ever, every HTTP request returns (both carry a     *)
(* timeout) and every sleep returns, so a step that can be taken is taken. *)
(***************************************************************************)
InitLive == InitWith({"modelscope"}, ShortPromptLengths)

NextLive ==
    \/ MS_validate_config
    \/ MS_submit
    \/ MS_check_timeout
    \/ MS_poll
    \/ MS_download
    \/ MS_sleep
    \/ MS_except

SpecLive == InitLive /\ [][NextLive]_vars /\ WF_vars(NextLive)

(***************************************************************************)
(* Capability queries, made before or after the call of generate_image.    *)
(***************************************************************************)
\* The variables of the call, which a query has no business with.
call == <<config, request, pc, now, payload, task_id, start_time, data, output_url,
          output, image_url, status_code, trace, outcome, exc, excMsg, result>>

Answer(query, value) == [query |-> query, value |-> value]

\* get_supported_sizes asking the service for the sizes.
MS_get_supported_sizes_Remote ==
    /\ backend = "modelscope"
    /\ pc \in {"start", "done"}
    /\ answer' = Answer("sizes", <<"1024x1024">>)
    /\ trace' = IF answer.query = "sizes" THEN trace ELSE Append(trace, Event("GET_SIZES", "", "ok", ""))
    /\ UNCHANGED <<config, request, pc, now, payload, task_id, start_time, data, output_url,
                   output, image_url, status_code, outcome, exc, excMsg, result>>

\* ModelScopeGenerator.get_supported_sizes
MS_get_supported_sizes ==
    /\ backend = "modelscope"
    /\ pc \in {"start", "done"}
    /\ answer' = Answer("sizes", <<"1024x1024">>)
    /\ UNCHANGED call

\* ModelScopeGenerator.get_supported_aspect_ratios
MS_get_supported_aspect_ratios ==
    /\ backend = "modelscope"
    /\ pc \in {"start", "done"}
    /\ answer' = Answer("aspect_ratios", <<"1:1">>)
    /\ UNCHANGED call

\* ReplicateGenerator.get_supported_aspect_ratios
RP_get_supported_aspect_ratios ==
    /\ backend = "replicate"
    /\ pc \in {"start", "done"}
    /\ answer' = Answer("aspect_ratios", <<"1:1", "3:4", "4:3", "9:16", "16:9">>)
    /\ UNCHANGED call

\* The sizes ReplicateGenerator inherits from ImageGeneratorBase: a fixed list.
BaseSupportedSizes == <<"1024x1024">>

\* ReplicateGenerator.get_supported_sizes, inherited from ImageGeneratorBase.
RP_get_supported_sizes ==
    /\ backend = "replicate"
    /\ pc \in {"start", "done"}
    /\ answer' = Answer("sizes", BaseSupportedSizes)
    /\ UNCHANGED call

NextQuery ==
    \/ Next
    \/ MS_get_supported_sizes
    \/ MS_get_supported_aspect_ratios
    \/ RP_get_supported_aspect_ratios
    \/ RP_get_supported_sizes

SpecQuery == Init /\ [][NextQuery]_vars

(***************************************************************************)
(* The construction of the request alone, on every aspect ratio and every  *)
(* combination of keyword arguments.                                       *)
(***************************************************************************)
InitParams == InitCall({"modelscope", "replicate"}, ShortPromptLengths, AspectRatios, Kwargs)

NextParams ==
    \/ MS_validate_config
    \/ MS_submit
    \/ RP_start
    \/ RP_run

SpecParams == InitParams /\ [][NextParams]_vars

(***************************************************************************)
(* Reading the trace.                                                      *)
(***************************************************************************)
Last(seq) == seq[Len(seq)]

\* Positions of the trace holding operation op.
At(op) == {i \in DOMAIN trace : trace[i].op = op}

\* Positions of status GETs that raised, that saw a terminal status, and
\* that saw any other status.
FailedPolls == {i \in At("GET_STATUS") : trace[i].res = "exc"}
TerminalPolls == {i \in At("GET_STATUS") : trace[i].res \in {"SUCCEED", "FAILED"}}
PendingPolls == {i \in At("GET_STATUS") : trace[i].res = "pending"}

FailedDownloads == {i \in At("GET_IMAGE") : trace[i].res = "exc"}

Elapsed == now - start_time

(***************************************************************************)
(* C1: in ModelScopeGenerator a failed download GET ends the call at once  *)
(* with an error: it is the last operation of the call, so no sleep, no    *)
(* status GET and no second download follow it.                            *)
(***************************************************************************)
C1_FailedDownloadEndsCall ==
    backend = "modelscope" =>
        \A i \in FailedDownloads :
            /\ i = Len(trace)
            /\ pc = "done"
            /\ outcome = "raise"

(***************************************************************************)
(* C2: for both generators, a call on a generator whose api_key is absent  *)
(* or empty performs no network operation (no POST, no run, no GET) and    *)
(* ends by raising.                                                        *)
(***************************************************************************)
C2_NoKeyNoNetwork ==
    ~Truthy(api_key) =>
        /\ trace = <<>>
        /\ pc = "done" => outcome = "raise"

(***************************************************************************)
(* C3, as stated: when the first terminal status is observed only after    *)
(* the elapsed time has passed the timeout, the call ends with             *)
(* TimeoutError.                                                           *)
(***************************************************************************)
C3_TimeoutBeforeTerminalStatus ==
    (/\ backend = "modelscope"
     /\ Cardinality(TerminalPolls) = 1
     /\ Len(trace) \in TerminalPolls
     /\ Elapsed > timeout)
    => (pc = "done" /\ outcome = "raise" /\ exc = "TimeoutError")

(***************************************************************************)
(* C3, amended: whenever an iteration of the polling loop starts with the  *)
(* elapsed time above the timeout, the call ends there with TimeoutError,  *)
(* returns no bytes and performs no further operation, whatever pending    *)
(* statuses and polling failures came before.                              *)
(***************************************************************************)
C3_TimeoutAtLoopTop ==
    [][(backend = "modelscope" /\ pc = "loop" /\ Elapsed > timeout) =>
           /\ pc' = "done"
           /\ outcome' = "raise"
           /\ exc' = "TimeoutError"
           /\ result' = ""
           /\ trace' = trace]_vars

C3_Witness ==
    /\ backend = "modelscope"
    /\ pc = "done"
    /\ exc = "TimeoutError"
    /\ FailedPolls # {}
    /\ PendingPolls # {}
    /\ TerminalPolls = {}

(***************************************************************************)
(* C4: in ModelScopeGenerator a status GET that raised never ends the      *)
(* call: it is followed by one sleep of exactly polling_interval and, if   *)
(* anything follows, by another status GET.  A call that saw only failed   *)
(* status GETs and then SUCCEED, and whose download succeeded, slept once  *)
(* per failure and returns the bytes served for the first output image.    *)
(***************************************************************************)
C4_AfterFailedPolls ==
    /\ \A i \in FailedPolls :
         /\ i = Len(trace) => pc = "except"
         /\ i < Len(trace) => trace[i + 1] = [op |-> "SLEEP", arg |-> "", res |-> "exc", body |-> ""]
         /\ i + 1 < Len(trace) => trace[i + 2].op = "GET_STATUS"
         /\ i + 1 = Len(trace) => pc \in {"loop", "get"} \/ (pc = "done" /\ exc = "TimeoutError")
    /\ (outcome = "return" /\ PendingPolls = {} /\ FailedDownloads = {}) =>
         /\ Cardinality(At("SLEEP")) = Cardinality(FailedPolls)
         /\ Cardinality(At("GET_STATUS")) = Cardinality(FailedPolls) + 1
         /\ Cardinality(At("GET_IMAGE")) = 1
         /\ Last(trace).op = "GET_IMAGE"
         /\ Last(trace).arg = data["output_images"][1]
         /\ result = Last(trace).body

C4_TransientPollFailures ==
    [][backend = "modelscope" =>
          /\ C4_AfterFailedPolls'
          /\ (pc = "except" /\ Len(trace) \in FailedPolls) =>
                (pc' = "loop" /\ now' = now + polling_interval /\ outcome' = "none")]_vars

C4_Witness ==
    /\ backend = "modelscope"
    /\ outcome = "return"
    /\ Cardinality(FailedPolls) >= 2
    /\ PendingPolls = {}
    /\ FailedDownloads = {}

(***************************************************************************)
(* C5: in ModelScopeGenerator every status other than SUCCEED and FAILED   *)
(* (PENDING, unrecognized, missing) is followed by one sleep.  When the    *)
(* first k responses are of that kind and the next is SUCCEED with         *)
(* output_images = [u, ...], the download of u starts after exactly k      *)
(* sleeps and k+1 status GETs, and if it succeeds it is the only download  *)
(* and its bytes are returned.                                             *)
(***************************************************************************)
C5_PendingThenSucceed ==
    backend = "modelscope" =>
        /\ \A i \in PendingPolls :
             /\ i = Len(trace) => pc = "sleep"
             /\ i < Len(trace) => trace[i + 1] = [op |-> "SLEEP", arg |-> "", res |-> "ok", body |-> ""]
        /\ (FailedPolls = {} /\ FailedDownloads = {} /\ Cardinality(TerminalPolls) = 1
            /\ pc \in {"download", "done"} /\ exc = "") =>
             /\ Cardinality(At("SLEEP")) = Cardinality(PendingPolls)
             /\ Cardinality(At("GET_STATUS")) = Cardinality(PendingPolls) + 1
             /\ output_url = data["output_images"][1]
             /\ pc = "download" => At("GET_IMAGE") = {}
             /\ pc = "done" =>
                  /\ outcome = "return"
                  /\ At("GET_IMAGE") = {Len(trace)}
                  /\ Last(trace).arg = data["output_images"][1]
                  /\ result = Last(trace).body

C5_Witness ==
    /\ backend = "modelscope"
    /\ outcome = "return"
    /\ Cardinality(PendingPolls) >= 2
    /\ FailedPolls = {}
    /\ FailedDownloads = {}
    /\ result = "png-B"

(***************************************************************************)
(* C6: in ModelScopeGenerator a FAILED status is the last operation of the *)
(* call: the call ends with RuntimeError, not TimeoutError, and the        *)
(* message of the error contains the message the server supplied.          *)
(***************************************************************************)
C6_FailedStatusEndsCall ==
    backend = "modelscope" =>
        \A i \in At("GET_STATUS") :
            trace[i].res = "FAILED" =>
                /\ i = Len(trace)
                /\ pc = "done"
                /\ outcome = "raise"
                /\ exc = "RuntimeError"
                /\ exc # "TimeoutError"
                /\ HasKey(data, "message") => Contains(excMsg, data["message"])

C6_Witness ==
    /\ backend = "modelscope"
    /\ pc = "done"
    /\ Len(trace) > 2
    /\ Last(trace).res = "FAILED"
    /\ HasKey(data, "message")
    /\ data["message"] = <<"bad", "prompt">>

(***************************************************************************)
(* C7: in ModelScopeGenerator, when the submission POST fails in           *)
(* transport, is answered with a status outside 2xx, or yields no task     *)
(* id, the call ends right there by raising: the POST stays the only       *)
(* operation of the call.                                                  *)
(***************************************************************************)
C7_FailedSubmissionEndsCall ==
    (/\ backend = "modelscope"
     /\ Len(trace) = 1
     /\ trace[1].op = "POST"
     /\ (~Is2xx(status_code) \/ task_id = ""))
    => (pc = "done" /\ outcome = "raise")

(***************************************************************************)
(* C8: for both generators, a download response with a 2xx status ends     *)
(* the call by returning the body of that response, and a download is      *)
(* taken as failed only on a transport failure or a status outside 2xx.    *)
(***************************************************************************)
C8_Any2xxDownloadSucceeds ==
    (trace # <<>> /\ Last(trace).op = "GET_IMAGE") =>
        /\ Is2xx(status_code) =>
             /\ pc = "done"
             /\ outcome = "return"
             /\ result = Last(trace).body
        /\ Last(trace).res = "exc" => ~Is2xx(status_code)

(***************************************************************************)
(* C9: in ReplicateGenerator the URL downloaded is the result of the run   *)
(* when that is one URL and its first element when it is a list; there is  *)
(* at most one run and one download, the download asks for that URL; and   *)
(* a call that raises after the run was started raises RuntimeError with   *)
(* the original message inside its own, and returns no bytes.              *)
(***************************************************************************)
C9_OriginalMessage ==
    IF Last(trace).op = "RUN"
      THEN IF Last(trace).res = "exc"
             THEN \E m \in RunErrors : Contains(excMsg, m)
             ELSE Contains(excMsg, <<"list", "index", "out", "of", "range">>)
    ELSE IF status_code = 0
      THEN Contains(excMsg, <<"connection", "failed">>)
    ELSE Contains(excMsg, <<"HTTP", ToString(status_code)>>)

C9_DirectCall ==
    backend = "replicate" =>
        /\ Cardinality(At("RUN")) <= 1
        /\ Cardinality(At("GET_IMAGE")) <= 1
        /\ (pc = "fetch" \/ At("GET_IMAGE") # {}) =>
             /\ image_url = (IF output.list THEN Head(output.items) ELSE output.url)
             /\ At("RUN") = {1}
             /\ trace[1].res = "ok"
        /\ \A i \in At("GET_IMAGE") : i = 2 /\ trace[i].arg = image_url /\ pc = "done"
        /\ outcome = "return" => At("GET_IMAGE") # {} /\ result = Last(trace).body
        /\ (outcome = "raise" /\ trace # <<>>) =>
             /\ exc = "RuntimeError"
             /\ result = ""
             /\ C9_OriginalMessage

C9_Witness ==
    /\ backend = "replicate"
    /\ outcome = "raise"
    /\ output.list
    /\ Len(trace) = 2
    /\ status_code = 404
    /\ image_url = "http://x/z.png"

(***************************************************************************)
(* C10: in ModelScopeGenerator the prompt of the submitted payload is the  *)
(* caller's prompt when that has at most MAX_PROMPT_LENGTH characters and  *)
(* its first MAX_PROMPT_LENGTH characters otherwise; and a call with a     *)
(* usable api_key always gets to issue the POST, however long the prompt.  *)
(***************************************************************************)
C10_PromptTruncated ==
    backend = "modelscope" =>
        /\ trace # <<>> =>
             /\ trace[1].op = "POST"
             /\ Len(payload.prompt) =
                  (IF Len(prompt) <= MAX_PROMPT_LENGTH THEN Len(prompt) ELSE MAX_PROMPT_LENGTH)
             /\ \A i \in 1 .. Len(payload.prompt) : payload.prompt[i] = prompt[i]
        /\ (Truthy(api_key) /\ pc \notin {"start", "submit"}) => trace # <<>>
        /\ (pc = "done" /\ trace = <<>>) => exc = "ValueError"

C10_Witness ==
    /\ backend = "modelscope"
    /\ Len(prompt) = MAX_PROMPT_LENGTH + 1
    /\ pc = "loop"
    /\ trace # <<>>
    /\ Len(payload.prompt) = MAX_PROMPT_LENGTH

(***************************************************************************)
(* C11: in ReplicateGenerator the five ratios of the table map to their    *)
(* fixed sizes and every other string maps to (1024, 1024) without         *)
(* failing; the width and height handed to client.run are that pair.       *)
(***************************************************************************)
C11_Expected ==
    CASE aspect_ratio = "1:1" -> <<1024, 1024>>
      [] aspect_ratio = "3:4" -> <<896, 1152>>
      [] aspect_ratio = "4:3" -> <<1152, 896>>
      [] aspect_ratio = "9:16" -> <<768, 1344>>
      [] aspect_ratio = "16:9" -> <<1344, 768>>
      [] OTHER -> <<1024, 1024>>

C11_DimensionsTotal ==
    (backend = "replicate" /\ replicate /\ pc # "start") =>
        /\ <<width, height>> = C11_Expected
        /\ pc = "run" => outcome = "none"
        /\ At("RUN") # {} =>
             /\ input_params["width"] = C11_Expected[1]
             /\ input_params["height"] = C11_Expected[2]

C11_Witness ==
    /\ backend = "replicate"
    /\ aspect_ratio = "2:3"
    /\ At("RUN") # {}
    /\ input_params["width"] = 1024
    /\ input_params["height"] = 1024

C13_Carries(sent) ==
    /\ HasKey(sent, "seed") <=> HasKey(kwargs, "seed")
    /\ HasKey(kwargs, "seed") => sent["seed"] = kwargs["seed"]
    /\ HasKey(sent, "num_inference_steps")
    /\ sent["num_inference_steps"] = (IF HasKey(kwargs, "steps") THEN kwargs["steps"] ELSE 9)
    /\ HasKey(sent, "guidance_scale")
    /\ sent["guidance_scale"] = (IF HasKey(kwargs, "guidance") THEN kwargs["guidance"] ELSE 0)

C13_OptionalFieldsBothBackends ==
    /\ (backend = "modelscope" /\ At("POST") # {}) => C13_Carries(payload)
    /\ (backend = "replicate" /\ At("RUN") # {}) => C13_Carries(input_params)

(***************************************************************************)
(* C13, amended: ReplicateGenerator hands client.run the caller's seed,    *)
(* steps and guidance when supplied, and otherwise no seed, 9 steps and    *)
(* guidance 0.0; ModelScopeGenerator submits model and prompt only,        *)
(* whatever optional fields the caller supplied.                           *)
(***************************************************************************)
C13_OptionalFieldsReplicateOnly ==
    /\ (backend = "replicate" /\ At("RUN") # {}) => C13_Carries(input_params)
    /\ (backend = "modelscope" /\ At("POST") # {}) => DOMAIN payload = {"model", "prompt"}

C13_Witness ==
    /\ backend = "replicate"
    /\ At("RUN") # {}
    /\ HasKey(kwargs, "seed")
    /\ kwargs["seed"] = 0
    /\ ~HasKey(kwargs, "steps")
    /\ HasKey(kwargs, "guidance")
    /\ input_params["guidance_scale"] = 35

(***************************************************************************)
(* C14: for both generators a capability query leaves every variable of    *)
(* the generator and of the call as it was, performs no network operation, *)
(* and answers with a non-empty list that depends only on the generator    *)
(* and the query, whatever was called before.                              *)
(***************************************************************************)
C14_Stable ==
    answer # NoAnswer =>
        /\ answer.value # <<>>
        /\ answer.value =
             (CASE backend = "modelscope" /\ answer.query = "sizes" -> <<"1024x1024">>
                [] backend = "modelscope" /\ answer.query = "aspect_ratios" -> <<"1:1">>
                [] backend = "replicate" /\ answer.query = "sizes" -> <<"1024x1024">>
                [] backend = "replicate" /\ answer.query = "aspect_ratios" ->
                       <<"1:1", "3:4", "4:3", "9:16", "16:9">>)

C14_QueriesArePure ==
    [][/\ C14_Stable'
       /\ answer' # answer => (trace' = trace /\ call' = call)]_vars

C14_Witness ==
    /\ backend = "modelscope"
    /\ outcome = "return"
    /\ Len(trace) > 3
    /\ answer.query = "sizes"

(***************************************************************************)
(* C15: in ModelScopeGenerator start_time is the clock value read when     *)
(* the submission has returned and no later step changes it; the timeout   *)
(* test is strict: an iteration that starts with the elapsed time equal    *)
(* to (or below) the timeout issues its status GET, one that starts with   *)
(* the elapsed time above the timeout issues none, and a status GET is     *)
(* issued in no other place.                                               *)
(***************************************************************************)
C15_StrictTimeout ==
    [][backend = "modelscope" =>
          /\ (pc = "submit" /\ pc' = "loop") => start_time' = now'
          /\ pc \notin {"start", "submit"} => start_time' = start_time
          /\ (pc = "loop" /\ now - start_time <= timeout) => (pc' = "get" /\ trace' = trace)
          /\ (pc = "loop" /\ now - start_time > timeout) => (pc' = "done" /\ trace' = trace)
          /\ pc = "get" =>
                /\ Len(trace') = Len(trace) + 1
                /\ Last(trace').op = "GET_STATUS"
          /\ (Len(trace') > Len(trace) /\ Last(trace').op = "GET_STATUS") =>
                (pc = "get" /\ now - start_time <= timeout)]_vars

C15_Witness ==
    /\ backend = "modelscope"
    /\ pc = "get"
    /\ timeout > 0
    /\ start_time > 0
    /\ now - start_time = timeout
    /\ FailedPolls # {}
    /\ PendingPolls # {}

(***************************************************************************)
(* C16: every call of ModelScopeGenerator.generate_image ends: it returns  *)
(* bytes or raises (an error or TimeoutError), whatever the sequence of    *)
(* poll outcomes, as long as requests and sleeps return and each sleep     *)
(* advances the clock by a positive polling_interval.                      *)
(***************************************************************************)
C16_Terminates == <>(pc = "done" /\ outcome \in {"return", "raise"})

C16_Witness ==
    /\ backend = "modelscope"
    /\ pc = "done"
    /\ exc = "TimeoutError"
    /\ TerminalPolls = {}
    /\ Cardinality(PendingPolls) >= 3 \/ Cardinality(FailedPolls) >= 3

(***************************************************************************)
(* C17: a call of ModelScopeGenerator.generate_image issues at most one    *)
(* POST, as its first operation; whatever follows (polling failures,       *)
(* pending statuses, failed downloads) it is not issued again, and every   *)
(* status GET asks for the task id that POST returned.                     *)
(***************************************************************************)
C17_OneSubmission ==
    backend = "modelscope" =>
        /\ At("POST") \subseteq {1}
        /\ \A i \in At("GET_STATUS") \cup At("GET_IMAGE") \cup At("SLEEP") :
             /\ At("POST") = {1}
             /\ trace[1].res = "ok"
        /\ \A i \in At("GET_STATUS") :
             /\ trace[i].arg = trace[1].body
             /\ trace[i].arg \in TaskIds

C17_Witness ==
    /\ backend = "modelscope"
    /\ trace # <<>>
    /\ trace[1].body = "t2"
    /\ FailedPolls # {}
    /\ PendingPolls # {}
    /\ FailedDownloads # {}
    /\ Cardinality(At("GET_STATUS")) >= 3

(***************************************************************************)
(* C18: in ModelScopeGenerator a status response with task_status SUCCEED  *)
(* whose output_images is missing or empty ends the call at once with an   *)
(* error (KeyError when missing, IndexError when empty): that status GET   *)
(* is the last operation of the call, so no sleep, status GET or download  *)
(* GET follows it.  A SUCCEED response is followed by nothing but the      *)
(* download of its first image.                                            *)
(***************************************************************************)
C18_NoImages == ~HasKey(data, "output_images") \/ Len(data.output_images) = 0

C18_SucceedWithoutImagesEndsCall ==
    backend = "modelscope" =>
        /\ \A i \in At("GET_STATUS") :
             (trace[i].res = "SUCCEED" /\ i < Len(trace)) => trace[i + 1].op = "GET_IMAGE"
        /\ (trace # <<>> /\ Last(trace).op = "GET_STATUS" /\ Last(trace).res = "SUCCEED") =>
             IF C18_NoImages
               THEN /\ pc = "done"
                    /\ outcome = "raise"
                    /\ exc = (IF HasKey(data, "output_images") THEN "IndexError" ELSE "KeyError")
               ELSE pc = "download"

C18_Witness ==
    /\ backend = "modelscope"
    /\ Len(trace) >= 4
    /\ Last(trace).op = "GET_STATUS"
    /\ Last(trace).res = "SUCCEED"
    /\ HasKey(data, "output_images")
    /\ Len(data.output_images) = 0
    /\ exc = "IndexError"
    /\ FailedPolls # {}

(***************************************************************************)
(* C19: in ModelScopeGenerator a status GET answered with a non-2xx HTTP   *)
(* status is handled like a transport failure of that GET: the call goes   *)
(* to the exception handler, which sleeps one polling interval and polls   *)
(* again.                                                                  *)
(***************************************************************************)
C19_Non2xxPollIsTransient ==
    (/\ backend = "modelscope"
     /\ trace # <<>>
     /\ Last(trace).op = "GET_STATUS"
     /\ status_code # 0
     /\ ~Is2xx(status_code)) => pc = "except"

(***************************************************************************)
(* C20: in ModelScopeGenerator the timeout is tested only at the top of a  *)
(* loop iteration: TimeoutError is raised by that test alone, never by the *)
(* status GET, the download, the sleep or the exception handler, and a     *)
(* download that succeeded returns its bytes however much time has passed. *)
(***************************************************************************)
C20_TimeoutOnlyAtLoopTop ==
    [][backend = "modelscope" =>
          /\ (exc' = "TimeoutError" /\ exc # "TimeoutError") => (pc = "loop" /\ trace' = trace)
          /\ pc \in {"get", "download", "sleep", "except"} => exc' # "TimeoutError"
          /\ (pc = "download" /\ Last(trace').op = "GET_IMAGE" /\ Last(trace').res = "ok") =>
                /\ pc' = "done"
                /\ outcome' = "return"
                /\ result' = Last(trace').body]_vars

C20_Witness ==
    /\ backend = "modelscope"
    /\ outcome = "return"
    /\ Last(trace).op = "GET_IMAGE"
    /\ Is2xx(status_code)
    /\ result \in Contents
    /\ timeout > 0
    /\ Elapsed > timeout

====
